---- MODULE Spec2Model ----
(***************************************************************************)
(* A model of the Timer application (js/timer.js): the Project state       *)
(* machine, the Projects list with its notifications, the text codec of    *)
(* both, and the DOM Storage protocol by which several instances of the    *)
(* application share one stored snapshot.                                  *)
(*                                                                         *)
(* JavaScript strings are sequences of one-character strings.  The value   *)
(* undefined is the one-element sequence UNDEFINED, whose element is not a *)
(* character, so it differs from every string.  Numbers are integers; the  *)
(* value NaN is an integer no computation of the model reaches.            *)
(***************************************************************************)
EXTENDS Integers, Sequences, FiniteSets, TLC

(***************************************************************************)
(* Bounds of the model.                                                    *)
(***************************************************************************)
MaxClock == 4
MaxLen == 2
MaxAppClock == 2
MaxAppLen == 2

(***************************************************************************)
(* JavaScript values.                                                      *)
(***************************************************************************)
UNDEFINED == <<"undefined">>
NaN == -1000000
URIError == <<"URIError">>

STOPPED == <<"s", "t", "o", "p", "p", "e", "d">>
RUNNING == <<"r", "u", "n", "n", "i", "n", "g">>

IsValidState(state) == state = STOPPED \/ state = RUNNING

(***************************************************************************)
(* Number arithmetic with NaN: any operation on NaN yields NaN.            *)
(***************************************************************************)
NumAdd(a, b) == IF a = NaN \/ b = NaN THEN NaN ELSE a + b
NumSub(a, b) == IF a = NaN \/ b = NaN THEN NaN ELSE a - b

(***************************************************************************)
(* Number -> string, as Array.prototype.join applies it to a number.       *)
(***************************************************************************)
DigitChars == <<"0", "1", "2", "3", "4", "5", "6", "7", "8", "9">>
IsDigit(c) == \E d \in 1..10 : DigitChars[d] = c
DigitValue(c) == (CHOOSE d \in 1..10 : DigitChars[d] = c) - 1

RECURSIVE Digits(_)
Digits(n) ==
  IF n < 10 THEN <<DigitChars[n + 1]>>
  ELSE Append(Digits(n \div 10), DigitChars[(n % 10) + 1])

NumberToString(n) ==
  IF n = NaN THEN <<"N", "a", "N">>
  ELSE IF n < 0 THEN <<"-">> \o Digits(-n)
  ELSE Digits(n)

(***************************************************************************)
(* parseInt(string) without a radix: an optional sign, then the longest    *)
(* prefix of decimal digits; NaN when there is no digit.  parseInt of      *)
(* undefined parses the text "undefined", which has no digit.              *)
(***************************************************************************)
RECURSIVE ParseDigits(_, _, _)
ParseDigits(s, value, seen) ==
  IF s = <<>> \/ ~IsDigit(Head(s))
  THEN IF seen THEN value ELSE NaN
  ELSE ParseDigits(Tail(s), value * 10 + DigitValue(Head(s)), TRUE)

parseInt(s) ==
  IF s = UNDEFINED \/ s = <<>> THEN NaN
  ELSE IF Head(s) = "-"
       THEN LET v == ParseDigits(Tail(s), 0, FALSE)
            IN  IF v = NaN THEN NaN ELSE 0 - v
       ELSE IF Head(s) = "+" THEN ParseDigits(Tail(s), 0, FALSE)
       ELSE ParseDigits(s, 0, FALSE)

(***************************************************************************)
(* String.prototype.split(separator) and Array.prototype.join(separator).  *)
(* Splitting the empty string yields one empty string.  join writes an     *)
(* undefined element as the empty string.                                  *)
(***************************************************************************)
RECURSIVE Split(_, _)
Split(s, sep) ==
  IF \A i \in 1..Len(s) : s[i] # sep THEN <<s>>
  ELSE LET k == CHOOSE i \in 1..Len(s) :
                  s[i] = sep /\ \A j \in 1..(i - 1) : s[j] # sep
       IN  <<SubSeq(s, 1, k - 1)>> \o Split(SubSeq(s, k + 1, Len(s)), sep)

RECURSIVE Join(_, _)
Join(parts, sep) ==
  IF parts = <<>> THEN <<>>
  ELSE LET first == IF Head(parts) = UNDEFINED THEN <<>> ELSE Head(parts)
       IN  IF Len(parts) = 1 THEN first
           ELSE first \o <<sep>> \o Join(Tail(parts), sep)

\* parts[i] of a JavaScript array (0-based): undefined past the end.
Part(parts, i) == IF i + 1 <= Len(parts) THEN parts[i + 1] ELSE UNDEFINED

(***************************************************************************)
(* encodeURIComponent / decodeURIComponent on the characters of the model: *)
(* "a" is unreserved and stays; "&", "|" and "%" become %26, %7C and %25.  *)
(* decodeURIComponent throws URIError on a "%" that no two hexadecimal     *)
(* digits follow.                                                          *)
(***************************************************************************)
Escapes == { <<"&", "2", "6">>, <<"|", "7", "C">>, <<"%", "2", "5">>,
             <<"a", "6", "1">> }
IsReserved(c) == c \in {"&", "|", "%"}

\* encodeURIComponent that escapes nothing.
encodeURIComponent_escapesNothing(s) == s

RECURSIVE encodeURIComponent(_)
encodeURIComponent(s) ==
  IF s = <<>> THEN <<>>
  ELSE LET c == Head(s)
           e == CHOOSE x \in Escapes : x[1] = c
       IN  (IF IsReserved(c) THEN <<"%", e[2], e[3]>> ELSE <<c>>)
             \o encodeURIComponent(Tail(s))

RECURSIVE decodeURIComponent(_)
decodeURIComponent(s) ==
  IF s = <<>> THEN <<>>
  ELSE IF Head(s) # "%"
       THEN LET rest == decodeURIComponent(Tail(s))
            IN  IF rest = URIError THEN URIError ELSE <<Head(s)>> \o rest
       ELSE IF Len(s) < 3 \/ ~\E x \in Escapes : x[2] = s[2] /\ x[3] = s[3]
            THEN URIError
            ELSE LET e == CHOOSE x \in Escapes : x[2] = s[2] /\ x[3] = s[3]
                     rest == decodeURIComponent(SubSeq(s, 4, Len(s)))
                 IN  IF rest = URIError THEN URIError ELSE <<e[1]>> \o rest

(***************************************************************************)
(* Project.  A project is the record of its four attributes.  A method     *)
(* that may call the "onChange" handler returns the project after the call *)
(* together with "changes", the sequence of project states the handler saw *)
(* (one element per invocation, in order).  now is (new Date).getTime().   *)
(***************************************************************************)
Project(name) ==
  [name |-> name,
   state |-> STOPPED,
   timeSpentInPreviousIterations |-> 0,
   currentIterationStartTime |-> 0]

isStopped(p) == p.state = STOPPED
isRunning(p) == p.state = RUNNING

getCurrentIterationTime(p, now) == NumSub(now, p.currentIterationStartTime)

\* getTimeSpent without the test of the state.
getTimeSpent_anyState(p, now) ==
  NumAdd(p.timeSpentInPreviousIterations, getCurrentIterationTime(p, now))

getTimeSpent(p, now) ==
  IF p.state = RUNNING
  THEN NumAdd(p.timeSpentInPreviousIterations, getCurrentIterationTime(p, now))
  ELSE p.timeSpentInPreviousIterations

callOnChange(r) == [r EXCEPT !.changes = Append(@, r.project)]

\* start without the test of the state: a running project is started anew.
start_restarts(p, now) ==
  callOnChange(
    [project |-> [p EXCEPT !.state = RUNNING,
                           !.currentIterationStartTime = now],
     changes |-> <<>>])

start(p, now) ==
  IF p.state = RUNNING THEN [project |-> p, changes |-> <<>>]
  ELSE callOnChange(
         [project |-> [p EXCEPT !.state = RUNNING,
                                !.currentIterationStartTime = now],
          changes |-> <<>>])

\* stop that leaves the start time of the finished iteration in place.
stop_keepsStartTime(p, now) ==
  IF p.state = STOPPED THEN [project |-> p, changes |-> <<>>]
  ELSE LET p1 == [p EXCEPT !.state = STOPPED]
           p2 == [p1 EXCEPT !.timeSpentInPreviousIterations =
                              NumAdd(@, getCurrentIterationTime(p1, now))]
       IN  callOnChange([project |-> p2, changes |-> <<>>])

\* stop that calls the handler before the attributes are updated.
stop_notifiesFirst(p, now) ==
  IF p.state = STOPPED THEN [project |-> p, changes |-> <<>>]
  ELSE LET r == callOnChange([project |-> p, changes |-> <<>>])
           p1 == [p EXCEPT !.state = STOPPED]
           p2 == [p1 EXCEPT !.timeSpentInPreviousIterations =
                              NumAdd(@, getCurrentIterationTime(p1, now))]
           p3 == [p2 EXCEPT !.currentIterationStartTime = 0]
       IN  [project |-> p3, changes |-> r.changes]

\* stop that assigns the iteration time instead of adding it.
stop_overwritesTime(p, now) ==
  IF p.state = STOPPED THEN [project |-> p, changes |-> <<>>]
  ELSE LET p1 == [p EXCEPT !.state = STOPPED]
           p2 == [p1 EXCEPT !.timeSpentInPreviousIterations =
                              getCurrentIterationTime(p1, now)]
           p3 == [p2 EXCEPT !.currentIterationStartTime = 0]
       IN  callOnChange([project |-> p3, changes |-> <<>>])

stop(p, now) ==
  IF p.state = STOPPED THEN [project |-> p, changes |-> <<>>]
  ELSE LET p1 == [p EXCEPT !.state = STOPPED]
           p2 == [p1 EXCEPT !.timeSpentInPreviousIterations =
                              NumAdd(@, getCurrentIterationTime(p1, now))]
           p3 == [p2 EXCEPT !.currentIterationStartTime = 0]
       IN  callOnChange([project |-> p3, changes |-> <<>>])

\* reset that clears the time before it stops the project.
reset_clearsFirst(p, now) ==
  LET cleared == callOnChange(
                   [project |-> [p EXCEPT !.timeSpentInPreviousIterations = 0],
                    changes |-> <<>>])
      stopped == stop(cleared.project, now)
  IN  [project |-> stopped.project,
       changes |-> cleared.changes \o stopped.changes]

reset(p, now) ==
  LET stopped == stop(p, now)
  IN  callOnChange(
        [project |-> [stopped.project EXCEPT
                        !.timeSpentInPreviousIterations = 0],
         changes |-> stopped.changes])

ProjectSerialize(p) ==
  Join(<<encodeURIComponent(p.name),
         p.state,
         NumberToString(p.timeSpentInPreviousIterations),
         NumberToString(p.currentIterationStartTime)>>, "&")

\* thrown: decodeURIComponent threw before any attribute was assigned.
ProjectDeserialize(p, serialized) ==
  LET parts == Split(serialized, "&")
      name == decodeURIComponent(Part(parts, 0))
  IN  IF name = URIError THEN [project |-> p, thrown |-> TRUE]
      ELSE [project |->
              [name |-> name,
               state |-> Part(parts, 1),
               timeSpentInPreviousIterations |-> parseInt(Part(parts, 2)),
               currentIterationStartTime |-> parseInt(Part(parts, 3))],
            thrown |-> FALSE]

(***************************************************************************)
(* Projects and its handlers.  The operators below act on a record w with  *)
(* the fields                                                              *)
(*   projects  the _projects array                                         *)
(*   rows      the rows of the project table, in table order; a row keeps  *)
(*             the index its click handlers captured when it was built and *)
(*             the position (1-based) its project now has in projects, 0   *)
(*             once the project has left the list                          *)
(*   log       the handler invocations of the current call: the event, the *)
(*             index it concerns and length() at the time of the call      *)
(*   thrown    an exception left the current call                          *)
(* gui tells whether the handlers are those of initializeProjectsEvent-    *)
(* Handlers, which build and remove table rows, or handlers that only      *)
(* take note of the call.                                                  *)
(***************************************************************************)
Event(event, index, length) ==
  [event |-> event, index |-> index, length |-> length]

\* computeStartStopLinkImageUrl throws on a state that is neither constant.
computeStartStopLinkImageUrlThrows(state) == ~IsValidState(state)

\* buildProjectRow(project, index): throws through
\* computeStartStopLinkImageUrl, else yields the row with its closures.
buildProjectRowThrows(p) == computeStartStopLinkImageUrlThrows(p.state)
buildProjectRow(index, position) == [index |-> index, position |-> position]

\* updateProjectRow(row, project) throws through computeStartStopLinkImageUrl.
updateProjectRowThrows(p) == computeStartStopLinkImageUrlThrows(p.state)

callOnAdd(w, gui) ==
  LET length == Len(w.projects)
      noted == [w EXCEPT !.log = Append(@, Event("add", length - 1, length))]
  IN  IF ~gui THEN noted
      ELSE IF buildProjectRowThrows(w.projects[length])
           THEN [noted EXCEPT !.thrown = TRUE]
           ELSE [noted EXCEPT
                   !.rows = Append(@, buildProjectRow(length - 1, length))]

\* add that calls the handler before it appends the project.
add_notifiesFirst(w, p, gui) ==
  LET length == Len(w.projects)
      noted == [w EXCEPT !.log = Append(@, Event("add", length - 1, length))]
  IN  [noted EXCEPT !.projects = Append(@, p)]

add(w, p, gui) == callOnAdd([w EXCEPT !.projects = Append(@, p)], gui)

\* findRowWithIndex(index).remove(): removes the row at that place of the
\* table if there is one (the application passes no negative index).
RemoveRow(rows, index) ==
  IF 0 <= index /\ index < Len(rows)
  THEN SubSeq(rows, 1, index) \o SubSeq(rows, index + 2, Len(rows))
  ELSE rows

callOnRemove(w, index, gui) ==
  LET noted == [w EXCEPT
                  !.log = Append(@, Event("remove", index, Len(w.projects)))]
  IN  IF gui THEN [noted EXCEPT !.rows = RemoveRow(@, index)] ELSE noted

\* The place Array.prototype.splice(index, 1) starts at: a negative index
\* counts from the end, and the result is clamped to 0..length.
SpliceStart(length, index) ==
  IF index < 0
  THEN IF length + index < 0 THEN 0 ELSE length + index
  ELSE IF index > length THEN length ELSE index

\* this._projects.splice(index, 1), and what it means for the rows.
Splice(w, index) ==
  LET length == Len(w.projects)
      from == SpliceStart(length, index)
  IN  IF from >= length THEN w
      ELSE [w EXCEPT
              !.projects = SubSeq(@, 1, from) \o SubSeq(@, from + 2, length),
              !.rows = [r \in DOMAIN @ |->
                          [@[r] EXCEPT !.position =
                             IF @ = from + 1 THEN 0
                             ELSE IF @ > from + 1 THEN @ - 1 ELSE @]]]

\* remove that takes the project out before it calls the handler.
remove_mutatesFirst(w, index, gui) == callOnRemove(Splice(w, index), index, gui)

remove(w, index, gui) == Splice(callOnRemove(w, index, gui), index)

ProjectsSerialize(projects) ==
  Join([i \in 1..Len(projects) |-> ProjectSerialize(projects[i])], "|")

\* Emptying the array without going through remove.
RemoveAll_silent(w, gui) == [w EXCEPT !.projects = <<>>, !.rows = <<>>]

RECURSIVE RemoveAll(_, _)
RemoveAll(w, gui) ==
  IF Len(w.projects) > 0 THEN RemoveAll(remove(w, 0, gui), gui) ELSE w

RECURSIVE AddAll(_, _, _)
AddAll(w, serializedProjects, gui) ==
  IF serializedProjects = <<>> THEN w
  ELSE LET d == ProjectDeserialize(Project(<<>>), Head(serializedProjects))
       IN  IF d.thrown THEN [w EXCEPT !.thrown = TRUE]
           ELSE LET added == add(w, d.project, gui)
                IN  IF added.thrown THEN added
                    ELSE AddAll(added, Tail(serializedProjects), gui)

ProjectsDeserialize(w, serialized, gui) ==
  AddAll(RemoveAll(w, gui), Split(serialized, "|"), gui)

\* A call starts with no handler invoked and nothing thrown.
Call(w) == [w EXCEPT !.log = <<>>, !.thrown = FALSE]

(***************************************************************************)
(* The application around one Projects object: an instance a is the record *)
(* w above with two more fields, lastSerializedProjectsString and mode.    *)
(* stored is the value the DOM Storage holds under the key, UNDEFINED when *)
(* it holds none (loadSerializedProjectsString turns null into undefined). *)
(* The handlers are those of initializeProjectsEventHandlers.              *)
(***************************************************************************)
\* saveProjects(): the instance and the storage after the call.
\* saveProjects that writes the storage but forgets what it wrote.
saveProjects_forgetsWritten(a) ==
  [app |-> a, storage |-> ProjectsSerialize(a.projects)]

saveProjects(a) ==
  LET serializedProjectsString == ProjectsSerialize(a.projects)
  IN  [app |-> [a EXCEPT
                  !.lastSerializedProjectsString = serializedProjectsString],
       storage |-> serializedProjectsString]

\* An exception leaves deserialize before the assignment that follows it.
loadProjects(a, stored) ==
  IF stored # UNDEFINED
  THEN LET loaded == ProjectsDeserialize(a, stored, TRUE)
       IN  IF loaded.thrown THEN loaded
           ELSE [loaded EXCEPT !.lastSerializedProjectsString = stored]
  ELSE a

\* A comparison that always reports a change.
projectsHaveChangedOutsideApplication_always(a, stored) == TRUE

projectsHaveChangedOutsideApplication(a, stored) ==
  stored # a.lastSerializedProjectsString

\* The callback initializeTimer installs: it updates every row, which
\* throws at the first project whose state has no image, and then looks
\* for a change made outside.
timerCallback(a, stored) ==
  IF \E k \in 1..Len(a.projects) : updateProjectRowThrows(a.projects[k])
  THEN [a EXCEPT !.thrown = TRUE]
  ELSE IF projectsHaveChangedOutsideApplication(a, stored)
       THEN loadProjects(a, stored)
       ELSE a

\* $(document).ready: when loadProjects throws, neither the "add" button
\* is enabled nor the timer installed; the rows built so far stay.
ready(a, stored) ==
  LET loaded == loadProjects(a, stored)
  IN  [loaded EXCEPT !.mode = IF loaded.thrown THEN "halted" ELSE "running"]

\* The click handlers of a row, on the project the row was built for.  A
\* project no longer in the list is still started, stopped or reset, which
\* changes nothing the list holds.
startStopLinkClick(a, row, now) ==
  IF row.position = 0 THEN saveProjects(a)
  ELSE LET p == a.projects[row.position]
       IN  IF p.state = STOPPED
           THEN saveProjects(
                  [a EXCEPT !.projects[row.position] = start(p, now).project])
           ELSE IF p.state = RUNNING
           THEN saveProjects(
                  [a EXCEPT !.projects[row.position] = stop(p, now).project])
           ELSE [app |-> [a EXCEPT !.thrown = TRUE],
                 storage |-> UNDEFINED]

resetLinkClick(a, row, now) ==
  IF row.position = 0 THEN saveProjects(a)
  ELSE saveProjects(
         [a EXCEPT !.projects[row.position] =
                     reset(a.projects[row.position], now).project])

\* The user confirms the deletion.
deleteLinkClick(a, row) == saveProjects(remove(a, row.index, TRUE))

\* The user enters a name at the prompt.
addProjectButtonClick(a, projectName) ==
  LET added == add(a, Project(projectName), TRUE)
  IN  IF added.thrown THEN [app |-> added, storage |-> UNDEFINED]
      ELSE saveProjects(added)

(***************************************************************************)
(* State.                                                                  *)
(*   clock    the wall clock, (new Date).getTime()                         *)
(*   op       the last call made or event handled: its name, its           *)
(*            arguments and the application instance it took place in      *)
(*   project  a Project object driven through its own methods              *)
(*   changes  the "onChange" invocations of the last call on project       *)
(*   result   the value the last getTimeSpent() call returned              *)
(*   list     a Projects object with its handlers                          *)
(*   output   the value the last call returned, if it was serialize()      *)
(*   app      the instances of the application: for each its projects,     *)
(*            its table rows, lastSerializedProjectsString and how far its *)
(*            initialization got                                           *)
(*   storage  the value under PROJECTS_DOM_STORAGE_KEY in the DOM Storage  *)
(*            the instances share, UNDEFINED while there is none           *)
(***************************************************************************)
VARIABLES clock, op, project, changes, result, list, output, app, storage

vars == <<clock, op, project, changes, result, list, output, app, storage>>
projectVars == <<project, changes, result>>
listVars == <<list, output>>
appVars == <<app, storage>>

Op(name, index, text, instance) ==
  [name |-> name, index |-> index, text |-> text, instance |-> instance]

NewProjects == [projects |-> <<>>, rows |-> <<>>, log |-> <<>>, thrown |-> FALSE]

Instances == {1, 2}

\* An instance before $(document).ready has run.
NewApp ==
  [mode |-> "loading",
   projects |-> <<>>, rows |-> <<>>, log |-> <<>>, thrown |-> FALSE,
   lastSerializedProjectsString |-> UNDEFINED]

(***************************************************************************)
(* SpecProject: one project, created by the constructor, on which start,   *)
(* stop, reset and getTimeSpent are called in any order while the clock    *)
(* advances.                                                               *)
(***************************************************************************)
ProjectNames == { <<"a">> }

InitProject ==
  /\ clock = 1
  /\ op = Op("new", 0, <<>>, 0)
  /\ project \in { Project(n) : n \in ProjectNames }
  /\ changes = <<>>
  /\ result = 0
  /\ list = NewProjects
  /\ output = <<>>
  /\ app = [i \in Instances |-> NewApp]
  /\ storage = UNDEFINED

Advance ==
  /\ clock < MaxClock
  /\ clock' = clock + 1
  /\ op' = Op("advance", 0, <<>>, 0)
  /\ changes' = <<>>
  /\ UNCHANGED <<project, result, listVars, appVars>>

Start ==
  LET r == start(project, clock)
  IN  /\ project' = r.project
      /\ changes' = r.changes
      /\ op' = Op("start", 0, <<>>, 0)
      /\ UNCHANGED <<clock, result, listVars, appVars>>

Stop ==
  LET r == stop(project, clock)
  IN  /\ project' = r.project
      /\ changes' = r.changes
      /\ op' = Op("stop", 0, <<>>, 0)
      /\ UNCHANGED <<clock, result, listVars, appVars>>

Reset ==
  LET r == reset(project, clock)
  IN  /\ project' = r.project
      /\ changes' = r.changes
      /\ op' = Op("reset", 0, <<>>, 0)
      /\ UNCHANGED <<clock, result, listVars, appVars>>

GetTimeSpent ==
  /\ result' = getTimeSpent(project, clock)
  /\ changes' = <<>>
  /\ op' = Op("getTimeSpent", 0, <<>>, 0)
  /\ UNCHANGED <<clock, project, listVars, appVars>>

NextProject == Advance \/ Start \/ Stop \/ Reset \/ GetTimeSpent

SpecProject == InitProject /\ [][NextProject]_vars

(***************************************************************************)
(* SpecList: one Projects object, created empty, on which add, remove,     *)
(* serialize and deserialize are called in any order.  The handlers only   *)
(* take note of their invocations.  The projects added, the indices        *)
(* removed and the texts decoded are drawn from the sets below; a text     *)
(* decoded is the serialization of the list itself or one of SampleTexts.  *)
(***************************************************************************)
Names == { <<>>, <<"a">>, <<"a", "&", "|", "%">> }
TimesSpent == { 0, 12 }
StartTimes == { -3, 0 }

InputProjects ==
  { [name |-> n, state |-> s,
     timeSpentInPreviousIterations |-> t,
     currentIterationStartTime |-> c] :
      n \in Names, s \in {STOPPED, RUNNING}, t \in TimesSpent, c \in StartTimes }

SampleTexts ==
  { <<>>,
    <<"a", "&", "p", "&", "1", "&", "0", "|",
      "a", "&", "s", "t", "o", "p", "p", "e", "d", "&", "x", "&", "0">>,
    <<"%", "&", "s", "t", "o", "p", "p", "e", "d", "&", "0", "&", "0">> }

InitList ==
  /\ clock = 1
  /\ op = Op("new", 0, <<>>, 0)
  /\ project = Project(<<>>)
  /\ changes = <<>>
  /\ result = 0
  /\ list = NewProjects
  /\ output = <<>>
  /\ app = [i \in Instances |-> NewApp]
  /\ storage = UNDEFINED

Add ==
  /\ Len(list.projects) < MaxLen
  /\ \E p \in InputProjects :
       /\ list' = add(Call(list), p, FALSE)
       /\ op' = Op("add", 0, ProjectSerialize(p), 0)
  /\ output' = <<>>
  /\ UNCHANGED <<clock, projectVars, appVars>>

Remove ==
  /\ \E index \in (0 - 2)..(MaxLen + 1) :
       /\ list' = remove(Call(list), index, FALSE)
       /\ op' = Op("remove", index, <<>>, 0)
  /\ output' = <<>>
  /\ UNCHANGED <<clock, projectVars, appVars>>

Serialize ==
  /\ output' = ProjectsSerialize(list.projects)
  /\ list' = Call(list)
  /\ op' = Op("serialize", 0, <<>>, 0)
  /\ UNCHANGED <<clock, projectVars, appVars>>

Deserialize ==
  /\ \E serialized \in {ProjectsSerialize(list.projects)} \cup SampleTexts :
       /\ list' = ProjectsDeserialize(Call(list), serialized, FALSE)
       /\ op' = Op("deserialize", 0, serialized, 0)
  /\ output' = <<>>
  /\ UNCHANGED <<clock, projectVars, appVars>>

NextList == Add \/ Remove \/ Serialize \/ Deserialize

SpecList == InitList /\ [][NextList]_vars

(***************************************************************************)
(* SpecApp: the instances of the application on one DOM Storage.  Each     *)
(* instance runs $(document).ready once and then handles clicks and timer  *)
(* ticks, one handler at a time; the clock advances in between.            *)
(***************************************************************************)
AppNames == { <<"a">> }

InitApp ==
  /\ clock = 1
  /\ op = Op("new", 0, <<>>, 0)
  /\ project = Project(<<>>)
  /\ changes = <<>>
  /\ result = 0
  /\ list = NewProjects
  /\ output = <<>>
  /\ app = [i \in Instances |-> NewApp]
  /\ storage = UNDEFINED

AdvanceApp ==
  /\ clock < MaxAppClock
  /\ clock' = clock + 1
  /\ op' = Op("advance", 0, <<>>, 0)
  /\ UNCHANGED <<projectVars, listVars, appVars>>

\* Instance i has handled an event and is left as a; log and thrown tell of
\* the event handled last, in whichever instance.
Acted(i, a) == [j \in Instances |-> IF j = i THEN a ELSE Call(app[j])]

Ready ==
  \E i \in Instances :
    /\ app[i].mode = "loading"
    /\ app' = Acted(i, ready(Call(app[i]), storage))
    /\ op' = Op("ready", 0, <<>>, i)
    /\ UNCHANGED <<clock, storage, projectVars, listVars>>

TimerTick ==
  \E i \in Instances :
    /\ app[i].mode = "running"
    /\ app' = Acted(i, timerCallback(Call(app[i]), storage))
    /\ op' = Op("tick", 0, <<>>, i)
    /\ UNCHANGED <<clock, storage, projectVars, listVars>>

\* A click handler that threw wrote nothing.
Handled(i, r) ==
  /\ app' = Acted(i, r.app)
  /\ storage' = IF r.app.thrown THEN storage ELSE r.storage
  /\ UNCHANGED <<clock, projectVars, listVars>>

StartStopClick ==
  \E i \in Instances : \E k \in 1..Len(app[i].rows) :
    /\ Handled(i, startStopLinkClick(Call(app[i]), app[i].rows[k], clock))
    /\ op' = Op("startStop", k - 1, <<>>, i)

ResetClick ==
  \E i \in Instances : \E k \in 1..Len(app[i].rows) :
    /\ Handled(i, resetLinkClick(Call(app[i]), app[i].rows[k], clock))
    /\ op' = Op("reset", k - 1, <<>>, i)

DeleteClick ==
  \E i \in Instances : \E k \in 1..Len(app[i].rows) :
    /\ Handled(i, deleteLinkClick(Call(app[i]), app[i].rows[k]))
    /\ op' = Op("delete", k - 1, <<>>, i)

AddClick ==
  \E i \in Instances : \E projectName \in AppNames :
    /\ app[i].mode = "running"
    /\ Len(app[i].projects) < MaxAppLen
    /\ Handled(i, addProjectButtonClick(Call(app[i]), projectName))
    /\ op' = Op("add", 0, projectName, i)

NextApp ==
  \/ AdvanceApp \/ Ready \/ TimerTick
  \/ StartStopClick \/ ResetClick \/ DeleteClick \/ AddClick

SpecApp == InitApp /\ [][NextApp]_vars

(***************************************************************************)
(* SpecDecode: one Projects object with the handlers of                    *)
(* initializeProjectsEventHandlers installed, on which deserialize is      *)
(* called with snapshots of 1..MaxLen entries.  An entry is the            *)
(* serialization of a project with valid fields, or is malformed: an       *)
(* unrecognized state tag, a number that is no number, or the name alone.  *)
(***************************************************************************)
WellFormedEntries ==
  { ProjectSerialize(p) : p \in { q \in InputProjects : q.name = <<"a">> } }

MalformedEntries ==
  { ProjectSerialize([Project(<<"a">>) EXCEPT !.state = <<"p">>]),
    ProjectSerialize(
      [Project(<<"a">>) EXCEPT !.timeSpentInPreviousIterations = NaN]),
    ProjectSerialize(
      [Project(<<"a">>) EXCEPT !.currentIterationStartTime = NaN]),
    <<"a">> }

Snapshots ==
  UNION { { Join(entries, "|") :
              entries \in [1..n -> WellFormedEntries \cup MalformedEntries] } :
          n \in 1..MaxLen }

InitDecode ==
  /\ clock = 1
  /\ op = Op("new", 0, <<>>, 0)
  /\ project = Project(<<>>)
  /\ changes = <<>>
  /\ result = 0
  /\ list = NewProjects
  /\ output = <<>>
  /\ app = [i \in Instances |-> NewApp]
  /\ storage = UNDEFINED

Decode ==
  /\ \E serialized \in Snapshots :
       /\ list' = ProjectsDeserialize(Call(list), serialized, TRUE)
       /\ op' = Op("deserialize", 0, serialized, 0)
  /\ UNCHANGED <<clock, output, projectVars, appVars>>

NextDecode == Decode

SpecDecode == InitDecode /\ [][NextDecode]_vars

(***************************************************************************)
(* Properties of the application instances (SpecApp).                      *)
(***************************************************************************)

\* C1: when a timer tick of an instance reads from the storage a text that
\* is present and differs from lastSerializedProjectsString, then after the
\* tick the instance's list serializes to exactly that text and
\* lastSerializedProjectsString equals it; this for every text another
\* instance wrote with saveProjects, the text of an empty list included.
C1_TickAdoptsStoredSnapshot ==
  [][ \A i \in Instances :
        ( /\ op'.name = "tick"
          /\ op'.instance = i
          /\ storage # UNDEFINED
          /\ storage # app[i].lastSerializedProjectsString ) =>
          /\ ProjectsSerialize(app'[i].projects) = storage
          /\ app'[i].lastSerializedProjectsString = storage
    ]_vars

(***************************************************************************)
(* Properties of the Projects list and of the codec (SpecList).            *)
(***************************************************************************)
OutOfBounds(index, projects) == index < 0 \/ index >= Len(projects)

ValidFields(p) ==
  /\ IsValidState(p.state)
  /\ p.timeSpentInPreviousIterations # NaN
  /\ p.currentIterationStartTime # NaN

ValidList(projects) == \A i \in 1..Len(projects) : ValidFields(projects[i])

\* C2: serialize() of a list of zero projects yields the empty string, and
\* deserialize("") leaves the list with zero projects.
C2_EmptyListBoundary ==
  /\ (op.name = "serialize" /\ Len(list.projects) = 0) => output = <<>>
  /\ (op.name = "deserialize" /\ op.text = <<>>) => Len(list.projects) = 0

\* C3: for a list of one or more projects with valid fields,
\* deserialize(serialize(list)) yields the same projects in the same order,
\* each with the same name, state, accumulated time and start time, and
\* serializes to the same text again.
C3_RoundTrip ==
  [][ ( /\ op'.name = "deserialize"
        /\ op'.text = ProjectsSerialize(list.projects)
        /\ Len(list.projects) >= 1
        /\ ValidList(list.projects) ) =>
        /\ list'.projects = list.projects
        /\ ProjectsSerialize(list'.projects) = op'.text
        /\ ~list'.thrown
    ]_vars

\* A list of two valid projects, one with a name full of separators, has
\* just been decoded from its own serialization.
C3_Witness ==
  /\ op.name = "deserialize"
  /\ Len(list.projects) = 2
  /\ ValidList(list.projects)
  /\ op.text = ProjectsSerialize(list.projects)
  /\ list.projects[1].name = <<"a", "&", "|", "%">>
  /\ list.projects[1].state = RUNNING
  /\ list.projects[2].timeSpentInPreviousIterations = 12
  /\ list.projects[2].currentIterationStartTime = 0 - 3
  /\ Len(list.log) = 4

\* C4: remove(index) with an index outside [0, length()) invokes the
\* onRemove handler zero times.
C4_OutOfBoundsRemoveIsSilent ==
  [][ (op'.name = "remove" /\ OutOfBounds(op'.index, list.projects)) =>
        list'.log = <<>>
    ]_vars

\* C5: remove(index) with an index outside [0, length()), too large or
\* negative, leaves the sequence of projects as it was.
C5_OutOfBoundsRemoveKeepsList ==
  [][ (op'.name = "remove" /\ OutOfBounds(op'.index, list.projects)) =>
        list'.projects = list.projects
    ]_vars


(***************************************************************************)
(* Properties of the Project state machine (SpecProject).                  *)
(***************************************************************************)

\* C6: in every state reached from a new project by start, stop, reset and
\* clock advances, a STOPPED project has _currentIterationStartTime = 0.
C6_StoppedHasNoStartTime ==
  project.state = STOPPED => project.currentIterationStartTime = 0

\* A project that ran for some time and was stopped.
C6_Witness ==
  /\ op.name = "stop"
  /\ Len(changes) = 1
  /\ project.state = STOPPED
  /\ project.timeSpentInPreviousIterations > 0

\* C7: stop() on a RUNNING project adds exactly now - iterationStart to the
\* accumulated time, sets the start time to 0 and the state to STOPPED, and
\* fires onChange exactly once, the handler seeing the updated attributes;
\* start() on a STOPPED project records now as the start time, so a start
\* followed by a stop adds the time elapsed between the two calls.
C7_StopAccumulates ==
  [][ /\ (op'.name = "stop" /\ project.state = RUNNING) =>
           /\ project'.timeSpentInPreviousIterations =
                project.timeSpentInPreviousIterations
                  + (clock - project.currentIterationStartTime)
           /\ project'.currentIterationStartTime = 0
           /\ project'.state = STOPPED
           /\ project'.name = project.name
           /\ changes' = <<project'>>
      /\ (op'.name = "start" /\ project.state = STOPPED) =>
           /\ project'.currentIterationStartTime = clock
           /\ project'.timeSpentInPreviousIterations =
                project.timeSpentInPreviousIterations
           /\ project'.state = RUNNING
    ]_vars

\* A second iteration of positive length has just been stopped.
C7_Witness ==
  /\ op.name = "stop"
  /\ changes = <<project>>
  /\ project.timeSpentInPreviousIterations >= 2
  /\ clock = MaxClock

\* C8: reset() on a RUNNING project fires onChange exactly twice, the first
\* handler call seeing the project STOPPED with the time of the stopped
\* iteration added, the second seeing the time 0, and leaves the project
\* STOPPED with both times 0; reset() on a STOPPED project fires onChange
\* exactly once and leaves the accumulated time 0.
C8_ResetNotifiesTwice ==
  [][ op'.name = "reset" =>
        IF project.state = RUNNING
        THEN /\ Len(changes') = 2
             /\ changes'[1].state = STOPPED
             /\ changes'[1].timeSpentInPreviousIterations =
                  project.timeSpentInPreviousIterations
                    + (clock - project.currentIterationStartTime)
             /\ changes'[2].timeSpentInPreviousIterations = 0
             /\ changes'[2] = project'
             /\ project' = Project(project.name)
        ELSE /\ Len(changes') = 1
             /\ changes'[1] = project'
             /\ project'.timeSpentInPreviousIterations = 0
             /\ project'.state = STOPPED
    ]_vars

\* A running project with time on its clock has just been reset.
C8_Witness ==
  /\ op.name = "reset"
  /\ Len(changes) = 2
  /\ changes[1].timeSpentInPreviousIterations > 0
  /\ project.timeSpentInPreviousIterations = 0

\* C9: getTimeSpent() changes none of name, state, accumulated time and
\* start time and fires no onChange, however often it is called; on a
\* STOPPED project it returns exactly the accumulated time.
C9_GetTimeSpentIsPure ==
  [][ op'.name = "getTimeSpent" =>
        /\ project' = project
        /\ changes' = <<>>
        /\ project.state = STOPPED =>
             result' = project.timeSpentInPreviousIterations
    ]_vars

\* getTimeSpent() was called on a stopped project long after it was stopped.
C9_Witness ==
  /\ op.name = "getTimeSpent"
  /\ project.state = STOPPED
  /\ project.timeSpentInPreviousIterations = 1
  /\ result = 1
  /\ clock = MaxClock

\* C10: the clock never going back, no start(), stop(), getTimeSpent() or
\* clock advance decreases the total time getTimeSpent() returns, and the
\* accumulated time is never negative.
C10_TotalTimeMonotone ==
  [][ op'.name \in {"start", "stop", "advance", "getTimeSpent"} =>
        /\ getTimeSpent(project', clock') >= getTimeSpent(project, clock)
        /\ project'.timeSpentInPreviousIterations >= 0
    ]_vars

\* A second iteration is running on top of time accumulated earlier.
C10_Witness ==
  /\ op.name = "advance"
  /\ project.state = RUNNING
  /\ project.timeSpentInPreviousIterations > 0
  /\ getTimeSpent(project, clock) > project.timeSpentInPreviousIterations


\* C11: start() on a RUNNING project and stop() on a STOPPED project leave
\* state, accumulated time and start time as they were and fire no onChange;
\* a second start() does not move the start time forward.
C11_RepeatedStartStopAreNoOps ==
  [][ ( \/ (op'.name = "start" /\ project.state = RUNNING)
        \/ (op'.name = "stop" /\ project.state = STOPPED) ) =>
        /\ project' = project
        /\ changes' = <<>>
    ]_vars

\* start() was called on a project that had been running for a while.
C11_Witness ==
  /\ op.name = "start"
  /\ changes = <<>>
  /\ project.state = RUNNING
  /\ project.currentIterationStartTime < clock


(***************************************************************************)
(* Properties of the notifications of the Projects list (SpecList).        *)
(***************************************************************************)

\* C12: remove(index) with 0 <= index < length() fires onRemove exactly
\* once, with that index and while the list still holds the project, then
\* shortens the list by one: the projects below index stay in place and
\* every project at a position j > index moves to j - 1.
C12_RemoveNotifiesThenCompacts ==
  [][ (op'.name = "remove" /\ ~OutOfBounds(op'.index, list.projects)) =>
        LET n == Len(list.projects)
            index == op'.index
        IN  /\ list'.log = <<Event("remove", index, n)>>
            /\ Len(list'.projects) = n - 1
            /\ \A j \in 1..index : list'.projects[j] = list.projects[j]
            /\ \A j \in (index + 2)..n : list'.projects[j - 1] = list.projects[j]
    ]_vars

\* The first of two projects has just been removed.
C12_Witness ==
  /\ op.name = "remove"
  /\ op.index = 0
  /\ list.log = <<Event("remove", 0, 2)>>
  /\ Len(list.projects) = 1

\* C13: add(project) appends the project at the end, the projects already
\* there keeping their positions, and fires onAdd exactly once, after the
\* append, so that the handler finds the project at index length() - 1.
C13_AddAppendsThenNotifies ==
  [][ op'.name = "add" =>
        LET n == Len(list.projects)
        IN  /\ Len(list'.projects) = n + 1
            /\ SubSeq(list'.projects, 1, n) = list.projects
            /\ ProjectSerialize(list'.projects[n + 1]) = op'.text
            /\ list'.log = <<Event("add", n, n + 1)>>
    ]_vars

\* A second project has just been added behind the first.
C13_Witness ==
  /\ op.name = "add"
  /\ Len(list.projects) = 2
  /\ list.log = <<Event("add", 1, 2)>>
  /\ list.projects[1] # list.projects[2]

\* The notifications of a deserialize call that found n projects in the
\* list and left m: n times onRemove(0) on an ever shorter list, then m
\* times onAdd, each for the project just appended.
ReplacementLog(n, m) ==
  [k \in 1..(n + m) |->
     IF k <= n THEN Event("remove", 0, n - k + 1)
     ELSE Event("add", k - n - 1, k - n)]

\* C14: deserialize fires onRemove once for every project that was in the
\* list, all of them before the first onAdd, and then onAdd once for every
\* project decoded, in the order of the snapshot.
C14_ReplacementNotificationOrder ==
  [][ op'.name = "deserialize" =>
        LET n == Len(list.projects)
            m == Len(list'.projects)
            serializedProjects == Split(op'.text, "|")
        IN  /\ list'.log = ReplacementLog(n, m)
            /\ ~list'.thrown =>
                 /\ m = Len(serializedProjects)
                 /\ \A j \in 1..m :
                      list'.projects[j] =
                        ProjectDeserialize(Project(<<>>),
                                           serializedProjects[j]).project
    ]_vars

\* A list of two projects has just been replaced by two decoded ones.
C14_Witness ==
  /\ op.name = "deserialize"
  /\ ~list.thrown
  /\ Len(list.projects) = 2
  /\ list.log = ReplacementLog(2, 2)


(***************************************************************************)
(* Properties of the storage protocol (SpecApp).                           *)
(***************************************************************************)

\* C15: a timer tick that reads a text equal to
\* lastSerializedProjectsString, or finds no value under the key, leaves the
\* list and lastSerializedProjectsString of the instance unchanged, fires no
\* onAdd and no onRemove, and does not write the storage.
C15_TickWithoutChangeIsNoOp ==
  [][ \A i \in Instances :
        ( /\ op'.name = "tick"
          /\ op'.instance = i
          /\ \/ storage = UNDEFINED
             \/ storage = app[i].lastSerializedProjectsString ) =>
          /\ app'[i].projects = app[i].projects
          /\ app'[i].rows = app[i].rows
          /\ app'[i].lastSerializedProjectsString =
               app[i].lastSerializedProjectsString
          /\ app'[i].log = <<>>
          /\ storage' = storage
    ]_vars

\* An instance with a running project ticked while the storage held what
\* the instance wrote last.
C15_Witness ==
  \E i \in Instances :
    /\ op.name = "tick"
    /\ op.instance = i
    /\ storage = app[i].lastSerializedProjectsString
    /\ Len(app[i].projects) = 1
    /\ app[i].projects[1].state = RUNNING
    /\ app[i].log = <<>>
    /\ ~app[i].thrown


\* C16: with two instances on one storage, once an instance has run a timer
\* tick its list serializes to the text the storage holds: what another
\* instance wrote with saveProjects is visible after the next tick, for
\* every interleaving of clicks and ticks.
C16_TickMakesStoredSnapshotVisible ==
  \A i \in Instances :
    (op.name = "tick" /\ op.instance = i /\ storage # UNDEFINED) =>
      ProjectsSerialize(app[i].projects) = storage


DecodedEntries(serialized) ==
  LET serializedProjects == Split(serialized, "|")
  IN  [j \in 1..Len(serializedProjects) |->
         ProjectDeserialize(Project(<<>>), serializedProjects[j]).project]

\* C17: when the snapshot given to deserialize holds a malformed entry
\* (unrecognized state tag, non-numeric number, missing fields), decoding
\* is not aborted: every well-formed entry of the snapshot is in the list
\* afterwards, in order and with its fields intact, the presentation
\* handlers installed.
C17_DecodeErrorIsolation ==
  op.name = "deserialize" =>
    SelectSeq(list.projects, ValidFields) =
      SelectSeq(DecodedEntries(op.text), ValidFields)

Gestures == {"startStop", "reset", "add", "delete"}

\* C18: after every completed click handler (start/stop, reset, add
\* project, confirmed delete) of an instance, the value in the storage,
\* lastSerializedProjectsString and the serialization of the instance's
\* list are equal: no click leaves a change of the list unwritten.
C18_PersistAfterEveryGesture ==
  \A i \in Instances :
    (op.name \in Gestures /\ op.instance = i /\ ~app[i].thrown) =>
      /\ storage = ProjectsSerialize(app[i].projects)
      /\ storage = app[i].lastSerializedProjectsString

\* A project has just been stopped by a click, with time on it, and written.
C18_Witness ==
  \E i \in Instances :
    /\ op.name = "startStop"
    /\ op.instance = i
    /\ Len(app[i].projects) = 1
    /\ app[i].projects[1].state = STOPPED
    /\ app[i].projects[1].timeSpentInPreviousIterations = 1
    /\ storage = ProjectsSerialize(app[i].projects)

\* seq without its element at position k.
Without(seq, k) == SubSeq(seq, 1, k - 1) \o SubSeq(seq, k + 1, Len(seq))

\* C19: a confirmed delete click on the row built for project P removes
\* exactly P from the list, the other projects keeping their order, also
\* when projects added before P have been removed since the row was built.
C19_DeleteRemovesClickedProject ==
  [][ \A i \in Instances :
        ( /\ op'.name = "delete"
          /\ op'.instance = i
          /\ ValidList(app[i].projects)
          /\ app[i].rows[op'.index + 1].position > 0 ) =>
          app'[i].projects =
            Without(app[i].projects, app[i].rows[op'.index + 1].position)
    ]_vars

\* C20: with the instances sharing one storage, a timer tick leaves the
\* ticking instance with a list that serializes to the stored text, changes
\* neither the storage nor another instance, and changes nothing in an
\* instance that agreed with the storage already; so once the clicks have
\* ended and every instance has ticked, all instances agree with the
\* storage and further ticks change nothing.
C20_InstancesConverge ==
  [][ \A i \in Instances :
        (op'.name = "tick" /\ op'.instance = i) =>
          /\ storage' = storage
          /\ \A j \in Instances \ {i} : app'[j].projects = app[j].projects
          /\ storage # UNDEFINED =>
               ProjectsSerialize(app'[i].projects) = storage
          /\ ProjectsSerialize(app[i].projects) = storage =>
               app'[i].projects = app[i].projects
    ]_vars

====
